---- MODULE Spec2Model ----
(***************************************************************************)
(* Model of radeco's control-flow structuring pass                         *)
(* (src/backend/ctrl_flow_struct/mod.rs).                                  *)
(*                                                                         *)
(* The state is the ControlFlowGraph (a petgraph StableDiGraph with stable *)
(* node and edge indices, adjacency lists and an edge free list), the      *)
(* state of the depth-first classification do_dfs, and the position of     *)
(* structure_whole in its walk over the post-order trace.                  *)
(***************************************************************************)
EXTENDS Integers, Sequences, FiniteSets, TLC

(* Bounds of the explored inputs. *)
MaxNodes == 4
MaxEdges == 4

VARIABLES
    graph,        \* ControlFlowGraph.graph
    entry,        \* ControlFlowGraph.entry
    input,        \* the graph structure_whole was called on (history)
    pc,           \* structure_whole is at: "start", "dfs", "walk", "done"
    outcome,      \* how structure_whole ended ("running" until then)
    discovered,   \* DfsState.discovered
    finished,     \* DfsState.finished
    backedges,    \* DfsState.backedges: target node -> sequence of edge ids
    podfs_trace,  \* DfsState.podfs_trace
    stack,        \* the recursion stack of go_rec: frames [u, rest]
    idx,          \* position of the for loop of structure_whole in the trace
    last          \* record of the last step of structure_whole (history)

vars == <<graph, entry, input, pc, outcome, discovered, finished, backedges,
          podfs_trace, stack, idx, last>>

---------------------------------------------------------------------------
(* Small helpers on sequences. *)

RECURSIVE SeqRemove(_, _)
SeqRemove(s, x) ==
    IF s = <<>> THEN <<>>
    ELSE IF Head(s) = x THEN Tail(s)
    ELSE <<Head(s)>> \o SeqRemove(Tail(s), x)

RECURSIVE Reverse(_)
Reverse(s) == IF s = <<>> THEN <<>> ELSE Append(Reverse(Tail(s)), Head(s))

Range(s) == {s[i] : i \in 1..Len(s)}

IndexOf(s, x) == CHOOSE i \in 1..Len(s) : s[i] = x

---------------------------------------------------------------------------
(* AstNode, Condition and SimpleCondition. *)

SimpleCondition(s) == s

Simple(c) == [tag |-> "Simple", label |-> c]

NoCondition == [tag |-> "None", label |-> ""]

BasicBlock(l) ==
    [tag |-> "BasicBlock", label |-> l, cond |-> NoCondition, kids |-> <<>>]

Seq_(v) == [tag |-> "Seq", label |-> -1, cond |-> NoCondition, kids |-> v]

Cond(c, a) == [tag |-> "Cond", label |-> -1, cond |-> c, kids |-> <<a>>]

---------------------------------------------------------------------------
(* StableDiGraph: the operations of petgraph the pass uses.                *)
(*   nodes      live node indices                                          *)
(*   weight     payload of every live node                                 *)
(*   edges      live edge index -> [src, dst, weight]                      *)
(*   out, inc   per node slot, the outgoing / incoming edge list, most     *)
(*              recently added edge first                                  *)
(*   free_edge  vacant edge indices, most recently vacated first           *)
(*   node_bound, edge_bound   number of slots ever allocated               *)

EmptyGraph(n) ==
    [nodes |-> 0..(n - 1),
     weight |-> [i \in 0..(n - 1) |-> BasicBlock(i)],
     edges |-> <<>>,
     out |-> [i \in 0..(n - 1) |-> <<>>],
     inc |-> [i \in 0..(n - 1) |-> <<>>],
     free_edge |-> <<>>,
     node_bound |-> n,
     edge_bound |-> 0]

add_edge(g, a, b, w) ==
    LET e == IF g.free_edge # <<>> THEN Head(g.free_edge) ELSE g.edge_bound
    IN  [g EXCEPT
            !.edges = [i \in DOMAIN g.edges \cup {e} |->
                          IF i = e THEN [src |-> a, dst |-> b, weight |-> w]
                          ELSE g.edges[i]],
            !.out = [n \in DOMAIN g.out |->
                        IF n = a THEN <<e>> \o g.out[n] ELSE g.out[n]],
            !.inc = [n \in DOMAIN g.inc |->
                        IF n = b THEN <<e>> \o g.inc[n] ELSE g.inc[n]],
            !.free_edge = IF g.free_edge # <<>> THEN Tail(g.free_edge)
                          ELSE <<>>,
            !.edge_bound = IF g.free_edge # <<>> THEN g.edge_bound
                           ELSE g.edge_bound + 1]

remove_edge(g, e) ==
    LET ed == g.edges[e]
    IN  [g EXCEPT
            !.edges = [i \in DOMAIN g.edges \ {e} |-> g.edges[i]],
            !.out = [n \in DOMAIN g.out |->
                        IF n = ed.src THEN SeqRemove(g.out[n], e)
                        ELSE g.out[n]],
            !.inc = [n \in DOMAIN g.inc |->
                        IF n = ed.dst THEN SeqRemove(g.inc[n], e)
                        ELSE g.inc[n]],
            !.free_edge = <<e>> \o g.free_edge]

RECURSIVE RemoveOutgoing(_, _)
RemoveOutgoing(g, a) ==
    IF g.out[a] = <<>> THEN g
    ELSE RemoveOutgoing(remove_edge(g, Head(g.out[a])), a)

RECURSIVE RemoveIncoming(_, _)
RemoveIncoming(g, a) ==
    IF g.inc[a] = <<>> THEN g
    ELSE RemoveIncoming(remove_edge(g, Head(g.inc[a])), a)

(* remove_node(a) of a live node: its edges go first (outgoing, then       *)
(* incoming), then the node slot is vacated.  The payload is returned by   *)
(* the caller reading g.weight[a] beforehand.                              *)
remove_node(g, a) ==
    LET h == RemoveIncoming(RemoveOutgoing(g, a), a)
    IN  [h EXCEPT
            !.nodes = h.nodes \ {a},
            !.weight = [i \in DOMAIN h.weight \ {a} |-> h.weight[i]]]

(* graph.edges(u): the outgoing edges of u, most recent first. *)
edges_of(g, u) == g.out[u]

(* graph.neighbors(u): the targets of the outgoing edges, same order. *)
neighbors(g, u) == [i \in 1..Len(g.out[u]) |-> g.edges[g.out[u][i]].dst]

(* graph.edge_endpoints(e): None for a vacant edge index. *)
edge_endpoints(g, e) ==
    IF e \in DOMAIN g.edges THEN <<g.edges[e].src, g.edges[e].dst>>
    ELSE <<>>

---------------------------------------------------------------------------
(* petgraph::visit::DfsPostOrder, as iterated by `visitor.iter(graph)`.    *)
(* The top of the stack is the last element of stk.  A node seen for the   *)
(* first time stays on the stack and its undiscovered neighbours are       *)
(* pushed; seen again it is popped and, if not yet finished, emitted.      *)

RECURSIVE PushUndiscovered(_, _, _)
PushUndiscovered(stk, succs, disc) ==
    IF succs = <<>> THEN stk
    ELSE PushUndiscovered(
            IF Head(succs) \notin disc THEN Append(stk, Head(succs)) ELSE stk,
            Tail(succs), disc)

RECURSIVE DfsPostOrderIter(_, _, _, _, _)
DfsPostOrderIter(g, stk, disc, fin, acc) ==
    IF stk = <<>> THEN acc
    ELSE LET nx == stk[Len(stk)]
         IN  IF nx \notin disc
             THEN DfsPostOrderIter(g,
                      PushUndiscovered(stk, neighbors(g, nx), disc \cup {nx}),
                      disc \cup {nx}, fin, acc)
             ELSE DfsPostOrderIter(g, SubSeq(stk, 1, Len(stk) - 1), disc,
                      fin \cup {nx},
                      IF nx \notin fin THEN Append(acc, nx) ELSE acc)

(* DfsPostOrder::new(graph, start) with the nodes of `visited` marked      *)
(* discovered beforehand, collected into a vector.                         *)
DfsPostOrder(g, start, visited) ==
    DfsPostOrderIter(g, <<start>>, visited, {}, <<>>)

---------------------------------------------------------------------------
(* petgraph::algo::dominators::simple_fast (Cooper, Harvey, Kennedy).      *)
(* idom is a function from the nodes whose immediate dominator is          *)
(* already defined to that dominator; the root maps to itself.             *)

predecessors(g, po, n) ==
    {p \in Range(po) : n \in Range(neighbors(g, p))}

RECURSIVE intersect(_, _, _, _)
intersect(idom, po, finger1, finger2) ==
    IF finger1 = finger2 THEN finger1
    ELSE IF IndexOf(po, finger1) < IndexOf(po, finger2)
         THEN intersect(idom, po, idom[finger1], finger2)
         ELSE intersect(idom, po, finger1, idom[finger2])

RECURSIVE FoldIntersect(_, _, _, _)
FoldIntersect(idom, po, acc, ps) ==
    IF ps = {} THEN acc
    ELSE LET p == CHOOSE q \in ps : TRUE
         IN  FoldIntersect(idom, po, intersect(idom, po, acc, p), ps \ {p})

(* One sweep over the nodes in reverse post-order, skipping the root. *)
RECURSIVE DomPass(_, _, _, _)
DomPass(g, po, idom, i) ==
    IF i < 1 THEN idom
    ELSE LET n == po[i]
             ps == {p \in predecessors(g, po, n) : p \in DOMAIN idom}
             first == CHOOSE p \in ps : TRUE
             new_idom == FoldIntersect(idom, po, first, ps \ {first})
         IN  DomPass(g, po,
                     [m \in DOMAIN idom \cup {n} |->
                         IF m = n THEN new_idom ELSE idom[m]],
                     i - 1)


RECURSIVE DomLoop(_, _, _)
DomLoop(g, po, idom) ==
    LET next == DomPass(g, po, idom, Len(po) - 1)
    IN  IF next = idom THEN idom ELSE DomLoop(g, po, next)

simple_fast(g, root) ==
    LET po == DfsPostOrder(g, root, {})
    IN  DomLoop(g, po, [m \in {root} |-> root])


(* Dominators::dominators(n): n, its immediate dominator, and so on up to  *)
(* the root; None (here the empty set) for a node the root does not reach. *)
RECURSIVE dominators(_, _, _)
dominators(idom, root, n) ==
    IF n \notin DOMAIN idom THEN {}
    ELSE IF n = root THEN {n}
    ELSE {n} \cup dominators(idom, root, idom[n])

mk_node_set(g) == {}

(* Variant: the nodes h strictly dominates, h itself left out. *)
dominates_set_strict(g, e, h) ==
    LET doms == simple_fast(g, e)
    IN  {n \in g.nodes \ {h} : h \in dominators(doms, e, n)}

(* Variant: only h and the nodes whose immediate dominator is h. *)
dominates_set_immediate(g, e, h) ==
    LET doms == simple_fast(g, e)
    IN  {n \in g.nodes : n \in DOMAIN doms /\ (n = h \/ doms[n] = h)}

(* Returns the set of nodes that h dominates. *)
dominates_set(g, e, h) ==
    LET doms == simple_fast(g, e)
    IN  mk_node_set(g) \cup {n \in g.nodes : h \in dominators(doms, e, n)}

(* Returns the union of the successors of each node in set. *)
successors_of_set(g, set) ==
    mk_node_set(g) \cup UNION {Range(neighbors(g, ni)) : ni \in set}

---------------------------------------------------------------------------
(* structure_acyclic_sese_region(header, successor): the nodes the         *)
(* post-order traversal from header reaches (successor marked as visited)  *)
(* are taken in reverse post-order; header keeps its slot and its payload  *)
(* is swapped for an empty Seq, every other node is removed; each payload  *)
(* is wrapped in a Cond; the Seq of these becomes header's payload and an  *)
(* edge header -> successor is added.                                      *)


(* Variant: the traversal is not stopped at successor. *)
region_postorder_unbounded(g, header, successor) ==
    DfsPostOrder(g, header, {})

region_postorder(g, header, successor) ==
    DfsPostOrder(g, header, {successor})

reaching_cond == Simple(SimpleCondition(""))

(* The closure of the map: result [g, ast] after folding the nodes of ord. *)
RECURSIVE FoldRegion(_, _, _, _)
FoldRegion(g, header, ord, ast) ==
    IF ord = <<>> THEN [g |-> g, ast |-> ast]
    ELSE LET n == Head(ord)
             n_ast == g.weight[n]
             g2 == IF n = header
                   THEN [g EXCEPT !.weight[header] = Seq_(<<>>)]
                   ELSE remove_node(g, n)
             n_cond_ast == Cond(reaching_cond, n_ast)
         IN  FoldRegion(g2, header, Tail(ord), Append(ast, n_cond_ast))


(* Variant: the edge header -> successor is not added. *)
structure_acyclic_sese_region_no_edge(g, header, successor) ==
    LET ord == Reverse(DfsPostOrder(g, header, {successor}))
        r == FoldRegion(g, header, ord, <<>>)
    IN  [r.g EXCEPT !.weight[header] = Seq_(r.ast)]

(* Variant: the Seq of the folded nodes is not put into the header. *)
structure_acyclic_sese_region_keep_dummy(g, header, successor) ==
    LET ord == Reverse(region_postorder(g, header, successor))
        r == FoldRegion(g, header, ord, <<>>)
    IN  add_edge(r.g, header, successor, SimpleCondition(""))

structure_acyclic_sese_region(g, header, successor) ==
    LET ord == Reverse(region_postorder(g, header, successor))
        r == FoldRegion(g, header, ord, <<>>)
        g3 == [r.g EXCEPT !.weight[header] = Seq_(r.ast)]
    IN  add_edge(g3, header, successor, SimpleCondition(""))

---------------------------------------------------------------------------
(* The input: a ControlFlowGraph built from n basic blocks and a list of   *)
(* edges added in order, edge i carrying its own opaque condition label.   *)

RECURSIVE AddEdges(_, _, _)
AddEdges(g, es, i) ==
    IF i > Len(es) THEN g
    ELSE AddEdges(add_edge(g, es[i][1], es[i][2],
                           SimpleCondition("c" \o ToString(i))), es, i + 1)

MkGraph(n, es) == AddEdges(EmptyGraph(n), es, 1)

(* Nodes reachable from the nodes of `from` along edges of g. *)
RECURSIVE ReachableFrom(_, _)
ReachableFrom(g, from) ==
    LET more == from \cup {g.edges[e].dst : e \in {x \in DOMAIN g.edges :
                                                     g.edges[x].src \in from}}
    IN  IF more = from THEN from ELSE ReachableFrom(g, more)

(* The edge lists explored.  Node 0 is the entry; the other blocks are     *)
(* numbered in the order in which the edge list first mentions them, which *)
(* picks one graph out of each class of graphs equal up to the numbering   *)
(* of the non-entry blocks.  Self loops and parallel edges are included.   *)
Min(a, b) == IF a <= b THEN a ELSE b

NumUsed(es) ==
    LET ends == {0} \cup {es[i][1] : i \in 1..Len(es)}
                    \cup {es[i][2] : i \in 1..Len(es)}
    IN  Cardinality(ends)

NextEdges(es) ==
    LET m == NumUsed(es)
    IN  {<<a, b>> : a \in 0..Min(m, MaxNodes - 1),
                    b \in 0..Min(m + 1, MaxNodes - 1)} \ 
        {ab \in (0..MaxNodes) \X (0..MaxNodes) :
            ab[2] > (IF ab[1] = m THEN m + 1 ELSE m)}

RECURSIVE InputEdgeLists(_)
InputEdgeLists(k) ==
    IF k = 0 THEN {<<>>}
    ELSE UNION {{Append(es, e) : e \in NextEdges(es)} :
                    es \in InputEdgeLists(k - 1)}

NoStep(g) ==
    [kind |-> "none", n |-> -1, region |-> {}, successor |-> -1,
     order |-> <<>>, before |-> g]

InitGraph(es) ==
    /\ graph = MkGraph(NumUsed(es), es)
    /\ ReachableFrom(graph, {0}) = graph.nodes

Init ==
    /\ \/ InitGraph(<<>>)
       \/ \E k \in 1..MaxEdges : \E es \in InputEdgeLists(k - 1) :
             \E e \in NextEdges(es) : InitGraph(Append(es, e))
    /\ entry = 0
    /\ input = graph
    /\ pc = "start"
    /\ outcome = "running"
    /\ discovered = {}
    /\ finished = {}
    /\ backedges = <<>>
    /\ podfs_trace = <<>>
    /\ stack = <<>>
    /\ idx = 0
    /\ last = NoStep(graph)

---------------------------------------------------------------------------
(* do_dfs and DfsState::go_rec, one step per examined edge.                *)


(* Variant: u is not marked as discovered. *)
go_rec_enter_unmarked(u, disc, stk) ==
    IF u \notin disc
    THEN [discovered |-> disc,
          stack |-> Append(stk, [u |-> u, rest |-> edges_of(graph, u)])]
    ELSE [discovered |-> disc, stack |-> stk]

(* Entering go_rec(u): `if self.discovered.visit(u)` opens the loop over   *)
(* the out-edges of u; an already discovered u returns at once.            *)
go_rec_enter(u, disc, stk) ==
    IF u \notin disc
    THEN [discovered |-> disc \cup {u},
          stack |-> Append(stk, [u |-> u, rest |-> edges_of(graph, u)])]
    ELSE [discovered |-> disc, stack |-> stk]

Top == stack[Len(stack)]

Advance(stk) == [stk EXCEPT ![Len(stk)].rest = Tail(stk[Len(stk)].rest)]

do_dfs ==
    /\ pc = "start"
    /\ LET r == go_rec_enter(entry, {}, <<>>)
       IN  /\ discovered' = r.discovered
           /\ stack' = r.stack
    /\ finished' = {}
    /\ backedges' = <<>>
    /\ podfs_trace' = <<>>
    /\ pc' = "dfs"
    /\ UNCHANGED <<graph, entry, input, outcome, idx, last>>

(* v undiscovered: recurse. *)
go_rec_tree ==
    /\ pc = "dfs" /\ stack # <<>> /\ Top.rest # <<>>
    /\ LET v == graph.edges[Head(Top.rest)].dst
       IN  /\ v \notin discovered
           /\ LET r == go_rec_enter(v, discovered, Advance(stack))
              IN  /\ discovered' = r.discovered
                  /\ stack' = r.stack
    /\ UNCHANGED <<graph, entry, input, pc, outcome, finished, backedges,
                   podfs_trace, idx, last>>


(* Variant: the edge is recorded under its source u instead of v. *)
go_rec_back_keyed_by_source ==
    /\ pc = "dfs" /\ stack # <<>> /\ Top.rest # <<>>
    /\ LET e == Head(Top.rest)
           u == Top.u
           v == graph.edges[e].dst
       IN  /\ v \in discovered
           /\ v \notin finished
           /\ backedges' =
                [k \in DOMAIN backedges \cup {u} |->
                    IF k = u
                    THEN Append(IF u \in DOMAIN backedges THEN backedges[u]
                                ELSE <<>>, e)
                    ELSE backedges[k]]
    /\ stack' = Advance(stack)
    /\ UNCHANGED <<graph, entry, input, pc, outcome, discovered, finished,
                   podfs_trace, idx, last>>

(* v discovered and not finished: the edge is recorded under key v. *)
go_rec_back ==
    /\ pc = "dfs" /\ stack # <<>> /\ Top.rest # <<>>
    /\ LET e == Head(Top.rest)
           v == graph.edges[e].dst
       IN  /\ v \in discovered
           /\ v \notin finished
           /\ backedges' =
                [k \in DOMAIN backedges \cup {v} |->
                    IF k = v
                    THEN Append(IF v \in DOMAIN backedges THEN backedges[v]
                                ELSE <<>>, e)
                    ELSE backedges[k]]
    /\ stack' = Advance(stack)
    /\ UNCHANGED <<graph, entry, input, pc, outcome, discovered, finished,
                   podfs_trace, idx, last>>

(* v finished: nothing is recorded. *)
go_rec_cross ==
    /\ pc = "dfs" /\ stack # <<>> /\ Top.rest # <<>>
    /\ LET v == graph.edges[Head(Top.rest)].dst
       IN  v \in discovered /\ v \in finished
    /\ stack' = Advance(stack)
    /\ UNCHANGED <<graph, entry, input, pc, outcome, discovered, finished,
                   backedges, podfs_trace, idx, last>>


(* Variant: the finished node is put in front of the trace. *)
go_rec_finish_prepend ==
    /\ pc = "dfs" /\ stack # <<>> /\ Top.rest = <<>>
    /\ finished' = finished \cup {Top.u}
    /\ podfs_trace' = <<Top.u>> \o podfs_trace
    /\ stack' = SubSeq(stack, 1, Len(stack) - 1)
    /\ pc' = IF Len(stack) = 1 THEN "walk" ELSE "dfs"
    /\ idx' = IF Len(stack) = 1 THEN 1 ELSE idx
    /\ UNCHANGED <<graph, entry, input, outcome, discovered, backedges, last>>

(* All out-edges of u examined: u is finished and appended to the trace;   *)
(* when go_rec(entry) returns, structure_whole starts its walk.            *)
go_rec_finish ==
    /\ pc = "dfs" /\ stack # <<>> /\ Top.rest = <<>>
    /\ LET u == Top.u
           first_finish == u \notin finished
       IN  /\ finished' = finished \cup {u}
           /\ IF first_finish
              THEN /\ podfs_trace' = Append(podfs_trace, u)
                   /\ stack' = SubSeq(stack, 1, Len(stack) - 1)
                   /\ pc' = IF Len(stack) = 1 THEN "walk" ELSE "dfs"
                   /\ idx' = IF Len(stack) = 1 THEN 1 ELSE idx
                   /\ outcome' = outcome
              ELSE /\ pc' = "done"
                   /\ outcome' = "debug_assert"
                   /\ UNCHANGED <<podfs_trace, stack, idx>>
    /\ UNCHANGED <<graph, entry, input, discovered, backedges, last>>

---------------------------------------------------------------------------
(* structure_whole: the walk over the post-order trace.                    *)

(* `succs.difference(&region)`, iterated in increasing index order. *)
region_successors(g, region) == successors_of_set(g, region) \ region

first_successor(rs) == CHOOSE s \in rs : \A t \in rs : s <= t


(* Variant: single-block regions are accepted. *)
is_sese_region_single(g, region) ==
    /\ Cardinality(region) >= 1
    /\ Cardinality(region_successors(g, region)) = 1

(* The guard of the call of structure_acyclic_sese_region: the region has  *)
(* more than one node and exactly one successor outside it.                *)
is_sese_region(g, region) ==
    /\ Cardinality(region) > 1
    /\ Cardinality(region_successors(g, region)) = 1

Current == podfs_trace[idx]

(* n is a key of backedges: the loop branch only prints the header and     *)
(* the latches; indexing a removed node or unwrapping the endpoints of a   *)
(* vacant edge index panics.                                               *)
walk_loop ==
    /\ pc = "walk" /\ idx <= Len(podfs_trace)
    /\ Current \in DOMAIN backedges
    /\ LET n == Current
           bes == backedges[n]
       IN  IF n \notin graph.nodes
           THEN /\ pc' = "done" /\ outcome' = "index_panic" /\ idx' = idx
           ELSE IF \E i \in 1..Len(bes) : edge_endpoints(graph, bes[i]) = <<>>
           THEN /\ pc' = "done" /\ outcome' = "unwrap_panic" /\ idx' = idx
           ELSE /\ pc' = pc /\ outcome' = outcome /\ idx' = idx + 1
    /\ last' = [NoStep(graph) EXCEPT !.kind = "loop", !.n = Current]
    /\ UNCHANGED <<graph, entry, input, discovered, finished, backedges,
                   podfs_trace, stack>>

(* acyclic branch, no call: a single-block region, or not exactly one      *)
(* successor outside the region.                                           *)
walk_skip ==
    /\ pc = "walk" /\ idx <= Len(podfs_trace)
    /\ Current \notin DOMAIN backedges
    /\ LET region == dominates_set(graph, entry, Current)
       IN  /\ ~is_sese_region(graph, region)
           /\ last' = [NoStep(graph) EXCEPT !.kind = "skip", !.n = Current,
                                            !.region = region]
    /\ idx' = idx + 1
    /\ UNCHANGED <<graph, entry, input, pc, outcome, discovered, finished,
                   backedges, podfs_trace, stack>>

(* acyclic branch, sese region: the region is collapsed into n. *)
walk_sese ==
    /\ pc = "walk" /\ idx <= Len(podfs_trace)
    /\ Current \notin DOMAIN backedges
    /\ LET n == Current
           region == dominates_set(graph, entry, n)
           succ == first_successor(region_successors(graph, region))
       IN  /\ is_sese_region(graph, region)
           /\ graph' = structure_acyclic_sese_region(graph, n, succ)
           /\ last' = [kind |-> "sese", n |-> n, region |-> region,
                       successor |-> succ,
                       order |-> Reverse(region_postorder(graph, n, succ)),
                       before |-> graph]
    /\ idx' = idx + 1
    /\ UNCHANGED <<entry, input, pc, outcome, discovered, finished, backedges,
                   podfs_trace, stack>>


(* Variant: with more than one node left, structure_whole starts another   *)
(* pass instead of stopping.                                               *)
walk_end_repeat ==
    /\ pc = "walk" /\ idx > Len(podfs_trace)
    /\ IF Cardinality(graph.nodes) > 1
       THEN pc' = "start" /\ outcome' = outcome
       ELSE pc' = "done" /\ outcome' = "unimplemented"
    /\ UNCHANGED <<graph, entry, input, discovered, finished, backedges,
                   podfs_trace, stack, idx, last>>

(* The trace is exhausted: structure_whole ends in `unimplemented!()`. *)
walk_end ==
    /\ pc = "walk" /\ idx > Len(podfs_trace)
    /\ pc' = "done"
    /\ outcome' = "unimplemented"
    /\ UNCHANGED <<graph, entry, input, discovered, finished, backedges,
                   podfs_trace, stack, idx, last>>

Next ==
    \/ do_dfs
    \/ go_rec_tree
    \/ go_rec_back
    \/ go_rec_cross
    \/ go_rec_finish
    \/ walk_loop
    \/ walk_skip
    \/ walk_sese
    \/ walk_end

Spec == Init /\ [][Next]_vars

(* A second family of inputs, with more blocks: the chain                  *)
(* 0 -> 1 -> ... -> ChainNodes - 1 and up to MaxExtra further edges        *)
(* between any two blocks, added after those of the chain.                 *)
ChainNodes == 5
MaxExtra == 2

ChainEdges(n) == [i \in 1..(n - 1) |-> <<i - 1, i>>]

InitChain ==
    /\ \E k \in 0..MaxExtra :
          \E ex \in [1..k -> (0..(ChainNodes - 1)) \X (0..(ChainNodes - 1))] :
              graph = MkGraph(ChainNodes, ChainEdges(ChainNodes) \o ex)
    /\ entry = 0
    /\ input = graph
    /\ pc = "start"
    /\ outcome = "running"
    /\ discovered = {}
    /\ finished = {}
    /\ backedges = <<>>
    /\ podfs_trace = <<>>
    /\ stack = <<>>
    /\ idx = 0
    /\ last = NoStep(graph)

SpecChain == InitChain /\ [][Next]_vars

---------------------------------------------------------------------------
(* Graph notions used to state the properties. *)

EdgesOf(g) == DOMAIN g.edges

OutEdges(g, n) == {e \in EdgesOf(g) : g.edges[e].src = n}

InEdges(g, n) == {e \in EdgesOf(g) : g.edges[e].dst = n}

Collapsed == last.kind = "sese"

(* A chain: at least two blocks, every block with at most one out-edge and *)
(* at most one in-edge, none into the entry (all blocks are reachable).    *)
IsChain(g, e) ==
    /\ Cardinality(g.nodes) >= 2
    /\ Cardinality(EdgesOf(g)) = Cardinality(g.nodes) - 1
    /\ InEdges(g, e) = {}
    /\ \A n \in g.nodes : /\ Cardinality(OutEdges(g, n)) <= 1
                          /\ Cardinality(InEdges(g, n)) <= 1

RECURSIVE ChainBlocks(_, _)
ChainBlocks(g, n) ==
    IF OutEdges(g, n) = {} THEN <<BasicBlock(n)>>
    ELSE <<BasicBlock(n)>> \o
         ChainBlocks(g, g.edges[CHOOSE e \in OutEdges(g, n) : TRUE].dst)

(* The if/else diamond h -> a, h -> b, a -> s, b -> s with entry h. *)
DiamondOf(g, h, a, b, s) ==
    /\ Cardinality({h, a, b, s}) = 4
    /\ g.nodes = {h, a, b, s}
    /\ Cardinality(EdgesOf(g)) = 4
    /\ {g.edges[e].dst : e \in OutEdges(g, h)} = {a, b}
    /\ {g.edges[e].dst : e \in OutEdges(g, a)} = {s}
    /\ {g.edges[e].dst : e \in OutEdges(g, b)} = {s}

EdgeCond(g, p, q) ==
    Simple(g.edges[CHOOSE e \in OutEdges(g, p) : g.edges[e].dst = q].weight)

(* Seq[Cond(c, A), Cond(!c, B)] followed by S, the branches in either      *)
(* order and the header's own block optionally leading its Seq.            *)
DiamondResults(g, h, a, b, s) ==
    LET ca == Cond(EdgeCond(g, h, a), BasicBlock(a))
        cb == Cond(EdgeCond(g, h, b), BasicBlock(b))
        heads == {<<ca, cb>>, <<cb, ca>>, <<BasicBlock(h), ca, cb>>,
                  <<BasicBlock(h), cb, ca>>}
    IN  {Seq_(<<Seq_(hd), BasicBlock(s)>>) : hd \in heads}

---------------------------------------------------------------------------
(* C1: for every input with all blocks reachable from the entry,           *)
(* structure_whole ends by returning an AstNode or by reporting the typed  *)
(* failure StructuringStuck, never in a generic panic.                     *)
C1_TypedOutcome ==
    pc = "done" => outcome \in {"AstNode", "StructuringStuck"}

(* C2: for a chain of two or more blocks structure_whole leaves exactly    *)
(* one node, whose payload is the Seq of the blocks in chain order with no *)
(* condition guarding any block.                                           *)
C2_StraightLine ==
    (pc = "done" /\ IsChain(input, entry)) =>
        /\ Cardinality(graph.nodes) = 1
        /\ \A r \in graph.nodes :
              graph.weight[r] = Seq_(ChainBlocks(input, entry))

(* C3: for the if/else diamond the header collapses to                     *)
(* Seq[Cond(c, A), Cond(!c, B)], an edge to S remains, and the whole graph *)
(* collapses to that Seq followed by S.                                    *)
C3_Diamond ==
    \A a, b, s \in input.nodes :
        (pc = "done" /\ DiamondOf(input, entry, a, b, s)) =>
            /\ Cardinality(graph.nodes) = 1
            /\ \A r \in graph.nodes :
                  graph.weight[r] \in DiamondResults(input, entry, a, b, s)

---------------------------------------------------------------------------
(* Conditions as sets of conjunctions of edge labels; the empty label of   *)
(* SimpleCondition("") counts as the trivial condition "true".             *)

LabelSet(l) == IF l = "" THEN {} ELSE {l}

RECURSIVE PathConds(_, _, _, _, _)
PathConds(g, region, from, to, visited) ==
    IF from = to THEN {{}}
    ELSE UNION {
            {LabelSet(g.edges[e].weight) \cup c :
                c \in PathConds(g, region, g.edges[e].dst, to,
                                visited \cup {g.edges[e].dst})} :
            e \in {x \in OutEdges(g, from) :
                      g.edges[x].dst \in region \ visited}}

(* "true" for the header; for any other node the disjunction over its      *)
(* in-region predecessors p of (p's reaching condition and the condition   *)
(* of the edge p -> n), unfolded along the paths of the region.            *)
ReachingCondition(g, region, header, n) ==
    PathConds(g, region, header, n, {header})

GuardOf(c) == {LabelSet(c.label)}

Equivalent(g, d1, d2) ==
    \A v \in SUBSET {g.edges[e].weight : e \in EdgesOf(g)} :
        (\E c \in d1 : c \subseteq v) <=> (\E c \in d2 : c \subseteq v)

(* C4: in every collapse the condition guarding a folded node is its       *)
(* reaching condition.                                                     *)
C4_ReachingCondition ==
    Collapsed =>
        \A i \in 1..Len(last.order) :
            LET k == graph.weight[last.n].kids[i]
            IN  /\ k.tag = "Cond"
                /\ Equivalent(last.before, GuardOf(k.cond),
                       ReachingCondition(last.before, last.region, last.n,
                                         last.order[i]))

---------------------------------------------------------------------------
(* Edges across the boundary of a region. *)

CrossIn(g, region) ==
    {e \in EdgesOf(g) : g.edges[e].dst \in region /\ g.edges[e].src \notin region}

CrossOut(g, region) ==
    {e \in EdgesOf(g) : g.edges[e].src \in region /\ g.edges[e].dst \notin region}

Internal(g, region) ==
    {e \in EdgesOf(g) : g.edges[e].src \in region /\ g.edges[e].dst \in region}

CountFrom(g, es, x) == Cardinality({e \in es : g.edges[e].src = x})

CountTo(g, es, x) == Cardinality({e \in es : g.edges[e].dst = x})

C6_NodeCountMonotone ==
    [][/\ Cardinality(graph'.nodes) <= Cardinality(graph.nodes)
       /\ (idx' # idx /\ last'.kind = "sese") =>
              Cardinality(graph'.nodes) < Cardinality(graph.nodes)]_vars

(* A collapse that removed two nodes at once. *)
C6_Witness ==
    /\ Collapsed
    /\ Cardinality(graph.nodes) + 2 <= Cardinality(last.before.nodes)

(* C7: the entry stays in the graph and every remaining node stays         *)
(* reachable from the entry.                                               *)
C7_Reachability ==
    /\ entry \in graph.nodes
    /\ ReachableFrom(graph, {entry}) = graph.nodes

(* A collapse happened and more than the header and the entry remain. *)
C7_Witness ==
    /\ Collapsed
    /\ Cardinality(graph.nodes) >= 3

(* Nodes the entry reaches along paths that avoid h. *)
RECURSIVE ReachableAvoiding(_, _, _)
ReachableAvoiding(g, from, h) ==
    LET more == (from \cup {g.edges[e].dst : e \in {x \in EdgesOf(g) :
                               g.edges[x].src \in from}}) \ {h}
    IN  IF more = from THEN from ELSE ReachableAvoiding(g, more, h)

(* The nodes n such that every path from the entry to n passes through h. *)
OnEveryPath(g, e, h) ==
    IF h = e THEN g.nodes
    ELSE g.nodes \ ReachableAvoiding(g, {e}, h)

(* C8: for every node h of the current graph reachable from the entry,     *)
(* dominates_set(h) is the set of nodes n such that every path from the    *)
(* entry to n passes through h, and it contains h.  It is evaluated on     *)
(* the input graph when the walk starts and on the graph left by every     *)
(* collapse.                                                               *)
C8_DominatesSet ==
    (pc = "walk" /\ (idx = 1 \/ Collapsed)) =>
        \A h \in ReachableFrom(graph, {entry}) \cap graph.nodes :
            LET set == dominates_set(graph, entry, h)
            IN  h \in set /\ set = OnEveryPath(graph, entry, h)

(* After a collapse, a node other than the entry dominates another node    *)
(* and some node has two predecessors.                                     *)
C8_Witness ==
    /\ Collapsed
    /\ \E h \in graph.nodes \ {entry} :
          Cardinality(dominates_set(graph, entry, h)) >= 2

(* The work structure_whole still has to do: during the classification,   *)
(* the out-edges not yet examined and the nodes not yet finished (open     *)
(* frames and undiscovered nodes), then one step per node of the trace     *)
(* and the final step.                                                     *)
RECURSIVE SumPending(_)
SumPending(stk) ==
    IF stk = <<>> THEN 0
    ELSE Len(Head(stk).rest) + 1 + SumPending(Tail(stk))

RECURSIVE SumUndiscovered(_)
SumUndiscovered(ns) ==
    IF ns = {} THEN 0
    ELSE LET n == CHOOSE x \in ns : TRUE
         IN  Len(input.out[n]) + 1 + SumUndiscovered(ns \ {n})

Measure ==
    CASE pc = "start" ->
            SumUndiscovered(input.nodes) + Cardinality(input.nodes) + 3
      [] pc = "dfs" ->
            SumPending(stack) + SumUndiscovered(input.nodes \ discovered)
                + Cardinality(input.nodes) + 2
      [] pc = "walk" -> Len(podfs_trace) - idx + 2
      [] pc = "done" -> 0

(* C9: structure_whole always terminates: every step of the               *)
(* classification and of the walk strictly decreases the non-negative      *)
(* amount of work left, so only finitely many steps are taken.             *)
C9_Terminates == [][Measure' < Measure /\ Measure' >= 0]_vars

(* A run on a graph with a cycle that collapsed a region and ended. *)
C9_Witness ==
    /\ pc = "done"
    /\ DOMAIN backedges # {}
    /\ Cardinality(graph.nodes) < Cardinality(input.nodes)

(* C10: the post-order trace holds every node reachable from the entry     *)
(* exactly once and no other node; a node is appended only when it is      *)
(* finished, after all its out-edges were examined; no node is finished    *)
(* twice; the entry is the last element.                                   *)
C10_PostOrderTrace ==
    /\ outcome # "debug_assert"
    /\ \A i, j \in 1..Len(podfs_trace) :
          i # j => podfs_trace[i] # podfs_trace[j]
    /\ Range(podfs_trace) = finished
    /\ \A i \in 1..Len(stack) : stack[i].u \notin Range(podfs_trace)
    /\ \A u \in finished : \A e \in OutEdges(input, u) :
          input.edges[e].dst \in discovered
    /\ (pc = "walk" /\ idx = 1) =>
          /\ Range(podfs_trace) = ReachableFrom(input, {entry})
          /\ podfs_trace[Len(podfs_trace)] = entry

(* The classification of a graph with a cycle and a node with two          *)
(* predecessors has just finished.                                         *)
C10_Witness ==
    /\ pc = "walk" /\ idx = 1
    /\ Len(podfs_trace) >= 3
    /\ DOMAIN backedges # {}
    /\ \E n \in input.nodes \ {entry} : Cardinality(InEdges(input, n)) >= 2

---------------------------------------------------------------------------
(* Cycles and the recorded back edges. *)

(* The edge ids held in the map backedges. *)
RecordedBackEdges ==
    UNION {Range(backedges[k]) : k \in DOMAIN backedges}

(* Nodes reachable from the nodes of `from` along the edges of es. *)
RECURSIVE ReachableAlong(_, _, _)
ReachableAlong(g, es, from) ==
    LET more == from \cup {g.edges[e].dst : e \in {x \in es :
                                                     g.edges[x].src \in from}}
    IN  IF more = from THEN from ELSE ReachableAlong(g, es, more)

(* Some cycle of g uses only edges of es. *)
HasCycle(g, es) ==
    \E e \in es :
        g.edges[e].src \in ReachableAlong(g, es, {g.edges[e].dst})

(* The nodes of the open frames of go_rec: the current recursion path. *)
RecursionPath == {stack[i].u : i \in 1..Len(stack)}

(* The step of go_rec that examines the next out-edge of the top frame     *)
(* changes the map as the claim says; no other step changes it, except     *)
(* do_dfs, which creates it empty.                                         *)
BackEdgeStep ==
    IF pc = "dfs" /\ stack # <<>> /\ Top.rest # <<>>
    THEN LET e == Head(Top.rest)
             u == Top.u
             v == graph.edges[e].dst
         IN  IF v \in discovered /\ v \notin finished
             THEN /\ v \in RecursionPath
                  /\ graph.edges[e].src = u
                  /\ DOMAIN backedges' = DOMAIN backedges \cup {v}
                  /\ backedges'[v] =
                        Append(IF v \in DOMAIN backedges THEN backedges[v]
                               ELSE <<>>, e)
                  /\ \A k \in DOMAIN backedges \ {v} :
                        backedges'[k] = backedges[k]
             ELSE backedges' = backedges
    ELSE backedges' = IF pc = "start" THEN <<>> ELSE backedges

(* C11: do_dfs records an edge (u, v) as a back edge exactly when, at the  *)
(* moment the edge is examined, v is discovered and not finished (v is on  *)
(* the current recursion path); it is stored under key v; edges to         *)
(* undiscovered or finished targets are never recorded.  When do_dfs has   *)
(* returned, every cycle of the graph contains a recorded back edge, and   *)
(* the map is empty when the graph is acyclic.                             *)
C11_BackEdges ==
    /\ [][BackEdgeStep]_vars
    /\ [](/\ \A k \in DOMAIN backedges : \A i \in 1..Len(backedges[k]) :
                /\ backedges[k][i] \in EdgesOf(input)
                /\ input.edges[backedges[k][i]].dst = k
          /\ (pc = "walk" /\ idx = 1) =>
                /\ ~HasCycle(input, EdgesOf(input) \ RecordedBackEdges)
                /\ (~HasCycle(input, EdgesOf(input)) => DOMAIN backedges = {}))

(* do_dfs has returned with two back edges under one key and a cycle of    *)
(* more than one node; some edge into an already finished node was not     *)
(* recorded.                                                               *)
C11_Witness ==
    /\ pc = "walk" /\ idx = 1
    /\ \E k \in DOMAIN backedges : Len(backedges[k]) >= 2
    /\ \E e \in RecordedBackEdges : input.edges[e].src # input.edges[e].dst
    /\ \E e \in EdgesOf(input) \ RecordedBackEdges :
          Cardinality(InEdges(input, input.edges[e].dst)) >= 2

---------------------------------------------------------------------------
(* The nodes the walk of structure_whole has already gone past. *)
Processed == {podfs_trace[i] : i \in 1..(idx - 1)}

(* C12: inner before outer.  In the post-order trace every node strictly   *)
(* dominated by a node n stands before n, and when the walk of             *)
(* structure_whole is at n, every other node of dominates_set(n) in the    *)
(* current graph has already been processed.                               *)
C12_InnerBeforeOuter ==
    /\ (pc = "walk" /\ idx = 1) =>
          \A i \in 1..Len(podfs_trace) :
              \A m \in dominates_set(input, entry, podfs_trace[i])
                          \ {podfs_trace[i]} :
                  /\ m \in Range(podfs_trace)
                  /\ IndexOf(podfs_trace, m) < i
    /\ (pc = "walk" /\ idx <= Len(podfs_trace)) =>
          dominates_set(graph, entry, Current) \ {Current} \subseteq Processed

(* After a collapse the walk is at a node other than the entry that        *)
(* dominates another node.                                                 *)
C12_Witness ==
    /\ pc = "walk" /\ idx <= Len(podfs_trace)
    /\ graph # input
    /\ Current # entry
    /\ Cardinality(dominates_set(graph, entry, Current)) >= 2

---------------------------------------------------------------------------
(* C13: every region structure_whole passes to                             *)
(* structure_acyclic_sese_region is acyclic: the subgraph induced by       *)
(* dominates_set(header) in the graph of the call contains no cycle.       *)
C13_RegionAcyclic ==
    Collapsed => ~HasCycle(last.before, Internal(last.before, last.region))

(* C14: after a collapse with header h and successor succ there is exactly *)
(* one edge from h to succ and it is the only outgoing edge of h, also     *)
(* when h had a direct edge to succ before the collapse.                   *)
C14_SingleExitEdge ==
    Collapsed =>
        /\ Cardinality(OutEdges(graph, last.n)) = 1
        /\ \A e \in OutEdges(graph, last.n) :
              graph.edges[e].dst = last.successor

---------------------------------------------------------------------------
(* The Seq a collapse leaves in the header. *)

(* The elements of the Seq installed as the header's payload. *)
SeqElems == graph.weight[last.n].kids

(* The payload wrapped by the i-th element. *)
ElemPayload(i) == SeqElems[i].kids[1]

(* The positions of the Seq holding the former payload of node m. *)
ElemsOf(m) ==
    {i \in 1..Len(SeqElems) :
        SeqElems[i].tag = "Cond" /\ ElemPayload(i) = last.before.weight[m]}

(* C15: the Seq installed by a collapse has one element per region node,   *)
(* the header's former payload is the first element, and for every edge    *)
(* p -> q between two region nodes the element of p comes before the       *)
(* element of q.                                                           *)
C15_SeqTopological ==
    Collapsed =>
        /\ graph.weight[last.n].tag = "Seq"
        /\ Len(SeqElems) = Cardinality(last.region)
        /\ \A m \in last.region : Cardinality(ElemsOf(m)) = 1
        /\ ElemsOf(last.n) = {1}
        /\ \A e \in Internal(last.before, last.region) :
              \A i \in ElemsOf(last.before.edges[e].src) :
                  \A j \in ElemsOf(last.before.edges[e].dst) : i < j

(* C16: in every call structure_acyclic_sese_region(header, successor)     *)
(* made by the driver, the nodes folded into the new Seq (those the        *)
(* traversal from header reaches with successor marked as visited) are     *)
(* exactly dominates_set(header) as the driver computed it before the      *)
(* call; successor is neither folded nor removed.                          *)
C16_FoldedIsRegion ==
    Collapsed =>
        /\ Range(last.order) = last.region
        /\ Len(last.order) = Cardinality(last.region)
        /\ {ElemPayload(i) : i \in 1..Len(SeqElems)}
              = {last.before.weight[m] : m \in last.region}
        /\ last.before.nodes \ graph.nodes = last.region \ {last.n}
        /\ last.successor \notin Range(last.order)
        /\ last.successor \in graph.nodes
        /\ graph.weight[last.successor] = last.before.weight[last.successor]

(* A collapse of three nodes whose successor has an edge back into the     *)
(* region.                                                                 *)
C16_Witness ==
    /\ Collapsed
    /\ Cardinality(last.region) >= 3
    /\ \E e \in OutEdges(last.before, last.successor) :
          last.before.edges[e].dst \in last.region

---------------------------------------------------------------------------
(* C17: when structure_whole processes a recorded back-edge target n,      *)
(* every back-edge id recorded for n still denotes an edge of the current  *)
(* graph whose target is n, so looking up its source never fails, also     *)
(* after earlier collapses of the same pass.                               *)
C17_BackEdgesStayValid ==
    /\ outcome # "unwrap_panic"
    /\ (pc = "walk" /\ idx <= Len(podfs_trace)
            /\ Current \in DOMAIN backedges) =>
          \A i \in 1..Len(backedges[Current]) :
              /\ edge_endpoints(graph, backedges[Current][i]) # <<>>
              /\ edge_endpoints(graph, backedges[Current][i])[2] = Current

---------------------------------------------------------------------------
(* n is a header the acyclic branch of the driver would collapse in the    *)
(* graph g: not a recorded loop header, and its dominated set has more     *)
(* than one node and exactly one successor outside it.                     *)
ValidHeader(g, n) ==
    /\ n \notin DOMAIN backedges
    /\ is_sese_region(g, dominates_set(g, entry, n))

(* C18: the driver keeps structuring until nothing more can be collapsed:  *)
(* when structure_whole stops walking, either exactly one node remains or  *)
(* no node of the current graph is a valid acyclic region header.          *)
C18_NothingLeftToCollapse ==
    (pc = "done" \/ (pc = "walk" /\ idx > Len(podfs_trace))) =>
        \/ Cardinality(graph.nodes) = 1
        \/ \A n \in graph.nodes : ~ValidHeader(graph, n)

---------------------------------------------------------------------------
(* C19: the trace is computed once, before any collapse, and yet every     *)
(* node structure_whole takes from it is still in the graph: no node the   *)
(* walk has still to process was removed by an earlier collapse, and       *)
(* indexing the graph with the current node never fails.                   *)
C19_TraceNodesPresent ==
    /\ outcome # "index_panic"
    /\ pc = "walk" =>
          \A j \in idx..Len(podfs_trace) : podfs_trace[j] \in graph.nodes

(* After a collapse removed nodes, the walk is at a recorded loop header,  *)
(* whose payload it reads.                                                 *)
C19_Witness ==
    /\ pc = "walk" /\ idx <= Len(podfs_trace)
    /\ graph.nodes # input.nodes
    /\ Current \in DOMAIN backedges
    /\ Current # entry

---------------------------------------------------------------------------
(* Payload trees. *)

(* The labels of the basic blocks of a payload tree, left to right. *)
RECURSIVE BlocksOf(_)
RECURSIVE BlocksOfAll(_)
BlocksOf(a) ==
    IF a.tag = "BasicBlock" THEN <<a.label>> ELSE BlocksOfAll(a.kids)

BlocksOfAll(v) ==
    IF v = <<>> THEN <<>> ELSE BlocksOf(Head(v)) \o BlocksOfAll(Tail(v))

(* The tree holds a Seq without elements. *)
RECURSIVE HasEmptySeq(_)
HasEmptySeq(a) ==
    \/ a.tag = "Seq" /\ a.kids = <<>>
    \/ \E i \in 1..Len(a.kids) : HasEmptySeq(a.kids[i])

(* C20: payload conservation.  After any sequence of collapses every basic *)
(* block of the input CFG occurs exactly once in the payload trees of the  *)
(* nodes left in the graph, and no payload holds the empty placeholder Seq *)
(* a collapse puts in the header for a while.                              *)
C20_PayloadConservation ==
    LET blocks == [n \in graph.nodes |-> BlocksOf(graph.weight[n])]
    IN  /\ \A b \in input.nodes :
              Cardinality({n \in graph.nodes : b \in Range(blocks[n])}) = 1
        /\ \A n \in graph.nodes :
              /\ Range(blocks[n]) \subseteq input.nodes
              /\ Cardinality(Range(blocks[n])) = Len(blocks[n])
              /\ ~HasEmptySeq(graph.weight[n])

(* Two collapses, the second folding the Seq left by the first. *)
C20_Witness ==
    /\ Collapsed
    /\ \E i \in 1..Len(SeqElems) : ElemPayload(i).tag = "Seq"
    /\ Len(BlocksOf(graph.weight[last.n])) >= 3

====
